---- MODULE Spec2Model ----
(***************************************************************************)
(* A model of the Fleece DB engine (Fleece/DB/DB.cc): the append-only      *)
(* snapshot file, snapshot load and recovery, the commit protocol with its *)
(* two durability barriers, and clones that read historical snapshots;     *)
(* and of the mutable dictionary overlay (Fleece/Mutable/HeapDict.cc).     *)
(*                                                                         *)
(* The file is modelled at the granularity of the objects the code writes: *)
(* a file is its size in bytes plus the set of records ("cells") written   *)
(* into it, each at its byte offset: the FileHeader, a serialized tree and *)
(* a FileTrailer.  Bytes covered by no cell are zeros or the remains of an *)
(* overwritten or cut record; they never read as a header or a trailer.    *)
(***************************************************************************)
EXTENDS Integers, Sequences, FiniteSets, TLC

\* ---------------------------------------------------------------- bounds

MaxCommits == 2                 \* snapshots a file comes to hold
MaxCuts == 1                    \* external truncations in one behaviour
MaxUnderflow == 1               \* how far below zero HeapDict's count wraps
Keys == {"a", "b"}              \* document keys
Vals == {"v1"}                      \* documents
PageSizes == {64, 128}          \* page sizes a DB is opened with
TrieSizes == {2, 40}            \* Encoder::bytesWritten() of one commit

\* ------------------------------------------------------ program constants

HeaderSize == 24                \* sizeof(FileHeader)
TrailerSize == 32               \* sizeof(FileTrailer)
MinHeaderLimit == 4096          \* validateHeader: max(_pageSize, 4096lu)

Absent == "absent"              \* nullptr: no value
NoChange == "nochange"          \* the overlay holds nothing for the key
Garbage == "garbage"            \* a tree read from bytes no commit wrote

VARIABLES
    file,       \* the file as the OS and the mapping show it: [size, cells]
    disk,       \* what stable storage holds: [size, cells]
    pageSize,   \* the page size the file's DB is opened with
    w,          \* the DB instance opened from the path (the writer)
    pc,         \* the writer's position: closed, idle, or a step of commit
    cw,         \* writeToFile's locals: [filePos, finalPos]
    r,          \* a clone of w (a reader)
    openResult, \* how the last construction of w / r ended
    ncuts,      \* external truncations so far
    hist,       \* what earlier states showed, for the properties below
    last,       \* the writer's last operation, where a specification keeps it
    _source,    \* HeapDict: the immutable Dict it wraps, or NoSource
    _map,       \* HeapDict: per key no entry, an empty slot or a value
    _count,     \* HeapDict: the count it keeps, a uint32_t read as two's
                \* complement: -1 stands for 2^32 - 1
    _changed,   \* HeapDict: HeapCollection's changed flag
    _iterable,  \* HeapDict: the flat projection, or NoIterable
    _borrowed,  \* HeapDict: the keys of _map whose bytes are the caller's,
                \* not held by _backingSlices
    hlast,      \* HeapDict: the last operation and the state it found
    str,        \* ParseInteger: the characters of str before its NUL
    allowTrailing,  \* ParseInteger: its allowTrailing argument
    parsed      \* ParseInteger: what it returned and stored, or Unparsed

hdvars == <<_source, _map, _count, _changed, _iterable, _borrowed, hlast>>

ncvars == <<str, allowTrailing, parsed>>

dbvars == <<file, disk, pageSize, w, pc, cw, r, openResult, ncuts, hist, last>>

\* ------------------------------------------------------------- the file

Max(a, b) == IF a > b THEN a ELSE b

NoDelta == [k \in Keys |-> NoChange]

EmptyFile == [size |-> 0, cells |-> {}]

HeaderCell ==
    [off |-> 0, len |-> HeaderSize, kind |-> "header",
     treeOffset |-> 0, prevTrailerPos |-> 0, base |-> 0, delta |-> NoDelta]

\* The tree the encoder emits at off: the changed entries, and the root of
\* the tree in the base image that the unchanged ones are referenced from.
TrieCell(off, len, base, delta) ==
    [off |-> off, len |-> len, kind |-> "trie",
     treeOffset |-> 0, prevTrailerPos |-> 0, base |-> base, delta |-> delta]

TrailerCell(off, treeOffset, prevTrailerPos) ==
    [off |-> off, len |-> TrailerSize, kind |-> "trailer",
     treeOffset |-> treeOffset, prevTrailerPos |-> prevTrailerPos,
     base |-> 0, delta |-> NoDelta]

\* fwrite of one record at its offset: what it overlaps is no longer whole.
WriteCell(cells, c) ==
    {d \in cells : d.off + d.len <= c.off \/ d.off >= c.off + c.len} \cup {c}

\* ftruncate: the records wholly below the new size remain.
CutCells(cells, size) == {d \in cells : d.off + d.len <= size}

\* The bytes [0, c) of a file image.
UpTo(cells, c) == CutCells(cells, c)

\* -------------------------------------------------- load and validation

NoDB ==
    [live |-> FALSE, pageSize |-> 0, dataSize |-> 0, prevCheckpoint |-> 0,
     treePos |-> 0, overlay |-> NoDelta, changed |-> FALSE,
     writeable |-> FALSE, damaged |-> FALSE]

validateHeader(cells, ps) ==
    /\ \E c \in cells : c.off = 0 /\ c.kind = "header"
    /\ HeaderSize < Max(ps, MinHeaderLimit)

TrailerAt(cells, size) ==
    CHOOSE c \in cells : c.off = size - TrailerSize /\ c.kind = "trailer"

treePosOf(cells, size) ==
    size - TrailerSize - TrailerAt(cells, size).treeOffset

\* A variant of validateTrailer: a previous trailer one page below is refused.
validateTrailerStrict(cells, ps, size) ==
    /\ ~(size < ps \/ size % ps # 0)
    /\ \E c \in cells : c.off = size - TrailerSize /\ c.kind = "trailer"
    /\ LET t == TrailerAt(cells, size)
           treePos == treePosOf(cells, size)
       IN  /\ ~(t.prevTrailerPos >= size - ps \/ t.prevTrailerPos % ps # 0)
           /\ ~(treePos < 0 \/ treePos < t.prevTrailerPos \/ treePos % 2 # 0)

validateTrailer(cells, ps, size) ==
    /\ ~(size < ps \/ size % ps # 0)
    /\ \E c \in cells : c.off = size - TrailerSize /\ c.kind = "trailer"
    /\ LET t == TrailerAt(cells, size)
           treePos == treePosOf(cells, size)
       IN  /\ ~(t.prevTrailerPos > size - ps \/ t.prevTrailerPos % ps # 0)
           /\ ~(treePos < 0 \/ treePos < t.prevTrailerPos \/ treePos % 2 # 0)

\* A variant of the loop that gives up at the first trailer that fails.
scanBackOnce(cells, ps, size) == IF validateTrailer(cells, ps, size) THEN size ELSE -1

\* The loop of loadCheckpoint: the size it ends at, or -1 when it throws.
RECURSIVE scanBack(_, _, _)
scanBack(cells, ps, size) ==
    IF validateTrailer(cells, ps, size) THEN size
    ELSE IF size <= ps \/ ps = 1 THEN -1
    ELSE scanBack(cells, ps, size - ps)

\* loadCheckpoint on instance db over the mapped bytes: the instance after
\* it, and whether it threw InvalidData.
loadCheckpoint(db, cells, checkpoint) ==
    IF checkpoint = 0
    THEN [threw |-> FALSE,
          db |-> [db EXCEPT !.dataSize = 0, !.damaged = FALSE, !.treePos = 0,
                            !.overlay = NoDelta, !.changed = FALSE]]
    ELSE LET ps == db.pageSize
             entered == [db EXCEPT !.dataSize = checkpoint, !.damaged = TRUE]
             found == scanBack(cells, ps, checkpoint - (checkpoint % ps))
         IN  IF checkpoint < ps \/ ~validateHeader(cells, ps) \/ found = -1
             THEN [threw |-> TRUE, db |-> entered]
             ELSE [threw |-> FALSE,
                   db |-> [entered EXCEPT
                             !.dataSize = found,
                             !.prevCheckpoint = TrailerAt(cells, found).prevTrailerPos,
                             !.treePos = treePosOf(cells, found),
                             !.overlay = NoDelta,
                             !.changed = FALSE,
                             !.damaged = (found # checkpoint)]]

\* HashTree::get on the tree whose root ends at treePos.
RECURSIVE treeGet(_, _, _)
treeGet(cells, treePos, k) ==
    IF treePos = 0 THEN Absent
    ELSE LET roots == {c \in cells : c.kind = "trie" /\ c.off + c.len = treePos}
         IN  IF roots = {} THEN Garbage
             ELSE LET c == CHOOSE c \in roots : TRUE
                  IN  IF c.delta[k] # NoChange THEN c.delta[k]
                      ELSE treeGet(cells, c.base, k)

\* DB::get: the overlay first, then the persistent tree in the mapped bytes.
get(db, cells, k) ==
    IF db.overlay[k] # NoChange THEN db.overlay[k]
    ELSE treeGet(UpTo(cells, db.dataSize), db.treePos, k)

checkpoint(db) == db.dataSize

isLegalCheckpoint(db, c) == c <= db.dataSize /\ c % db.pageSize = 0

\* DB::dataUpToCheckpoint: the bytes below c, or the null slice.
dataUpToCheckpoint(db, cells, c) ==
    IF isLegalCheckpoint(db, c)
    THEN [null |-> FALSE, bytes |-> UpTo(cells, c)]
    ELSE [null |-> TRUE, bytes |-> {}]

\* -------------------------------------------------------------- actions

NoGets == [k \in Keys |-> Absent]

\* What get returns for every key.
gets(db, cells) == [k \in Keys |-> get(db, cells, k)]

NoLoad == [cp |-> 0, gets |-> NoGets, bytes |-> {}]

\* hist: phase says what the writer last went through; pre, B and F0 are the
\* documents, the checkpoint and the file size a commit started from; snaps
\* holds, per checkpoint a commit produced, the documents and the bytes of
\* that snapshot; rc and rload are the checkpoint a clone was asked for and
\* what it showed when it was loaded.
NoHist ==
    [phase |-> "none", pre |-> NoGets, B |-> 0, F0 |-> 0, snaps |-> {},
     rc |-> 0, rload |-> NoLoad]

Forget(h) == [h EXCEPT !.phase = "none", !.pre = NoGets, !.B = 0, !.F0 = 0]

SnapGets(snaps, c) ==
    IF \E s \in snaps : s.c = c THEN (CHOOSE s \in snaps : s.c = c).gets ELSE NoGets

CommitSteps == {"header", "encode", "extend", "flush1", "trailer", "flush2", "reload"}

\* last: the operation, its arguments and result, the instance and the file
\* it found, the fsyncs that failed under it, the warnings it printed and
\* the sizes it gave the commit observer.  A specification that does not
\* read it keeps it off.
NoOp(on) ==
    [on |-> on, op |-> "none", args |-> <<>>, result |-> "none", w0 |-> NoDB,
     file0 |-> EmptyFile, failed |-> 0, warned |-> 0, observed |-> <<>>]

Did(op, args, result) ==
    IF last.on
    THEN [on |-> TRUE, op |-> op, args |-> args, result |-> result, w0 |-> w,
          file0 |-> file, failed |-> 0, warned |-> 0, observed |-> <<>>]
    ELSE last

Untracked == last = NoOp(FALSE)

Tracked == last = NoOp(TRUE)

InitDB ==
    /\ file = EmptyFile
    /\ disk = EmptyFile
    /\ w = [NoDB EXCEPT !.live = TRUE, !.pageSize = pageSize, !.writeable = TRUE]
    /\ pc = "idle"
    /\ cw = [filePos |-> 0, finalPos |-> 0]
    /\ r = NoDB
    /\ openResult = "ok"
    /\ ncuts = 0
    /\ hist = NoHist

\* DB::DB(filePath, mode, maxSize, pageSize) in a writing mode: loadLatest.
Open ==
    /\ pc = "closed"
    /\ LET res == loadCheckpoint([NoDB EXCEPT !.live = TRUE, !.pageSize = pageSize,
                                              !.writeable = TRUE],
                                 file.cells, file.size)
       IN  IF res.threw
           THEN /\ openResult' = "InvalidData"
                /\ UNCHANGED <<w, pc>>
           ELSE /\ openResult' = "ok"
                /\ w' = res.db
                /\ pc' = "idle"
    /\ hist' = [hist EXCEPT !.phase =
                   CASE @ = "committed" -> "reopened"
                     [] @ \in {"interrupted", "cut"} -> "recovered"
                     [] OTHER -> @]
    /\ last' = NoOp(last.on)
    /\ UNCHANGED <<file, disk, pageSize, cw, r, ncuts, hdvars, ncvars>>

\* The instances are destroyed; the file stays as it is.
Close ==
    /\ pc = "idle"
    /\ w' = NoDB
    /\ r' = NoDB
    /\ pc' = "closed"
    /\ openResult' = "none"
    /\ hist' = IF hist.phase \in {"committed", "reopened"}
               THEN [hist EXCEPT !.phase = "committed", !.rc = 0, !.rload = NoLoad]
               ELSE [Forget(hist) EXCEPT !.rc = 0, !.rload = NoLoad]
    /\ last' = NoOp(last.on)
    /\ UNCHANGED <<file, disk, pageSize, cw, ncuts, hdvars, ncvars>>

\* A variant of put that stores whatever the mode.
putAnyMode(db, cells, k, mode, v) ==
    IF v # Absent
    THEN [db EXCEPT !.overlay[k] = v, !.changed = TRUE]
    ELSE [db EXCEPT !.overlay[k] = Absent, !.changed = TRUE]

\* MutableHashTree::insert with DB::put's callback, and DB::put's removal.
put(db, cells, k, mode, v) ==
    LET cur == get(db, cells, k)
    IN  IF v # Absent
        THEN IF (mode = "Insert" /\ cur # Absent) \/ (mode = "Update" /\ cur = Absent)
             THEN db
             ELSE [db EXCEPT !.overlay[k] = v, !.changed = TRUE]
        ELSE IF mode # "Insert" /\ cur # Absent
             THEN [db EXCEPT !.overlay[k] = Absent, !.changed = TRUE]
             ELSE db

\* DB::put's return value
putResult(db, cells, k, mode, v) ==
    LET cur == get(db, cells, k)
    IN  IF v # Absent
        THEN IF (mode = "Insert" /\ cur # Absent) \/ (mode = "Update" /\ cur = Absent)
             THEN "false" ELSE "true"
        ELSE IF mode # "Insert" /\ cur # Absent THEN "true" ELSE "false"

Put(k, mode, v) ==
    /\ pc = "idle"
    /\ w.writeable
    /\ w' = put(w, file.cells, k, mode, v)
    /\ hist' = Forget(hist)
    /\ last' = Did("put", <<k, mode, v>>, putResult(w, file.cells, k, mode, v))
    /\ UNCHANGED <<file, disk, pageSize, pc, cw, r, openResult, ncuts, hdvars, ncvars>>

\* DB::remove
remove(db, cells, k) ==
    IF get(db, cells, k) # Absent
    THEN [db EXCEPT !.overlay[k] = Absent, !.changed = TRUE]
    ELSE db

\* DB::remove's return value
removeResult(db, cells, k) == IF get(db, cells, k) # Absent THEN "true" ELSE "false"

Remove(k) ==
    /\ pc = "idle"
    /\ w.writeable
    /\ w' = remove(w, file.cells, k)
    /\ hist' = Forget(hist)
    /\ last' = Did("remove", <<k>>, removeResult(w, file.cells, k))
    /\ UNCHANGED <<file, disk, pageSize, pc, cw, r, openResult, ncuts, hdvars, ncvars>>

\* DB::revertChanges
\* DB::getMutable: the tree's mutable copy of the document, kept in the
\* overlay; nothing when the key has no document.
getMutableDict(db, cells, k) ==
    IF get(db, cells, k) \in Vals
    THEN [db EXCEPT !.overlay[k] = get(db, cells, k), !.changed = TRUE]
    ELSE db

GetMutable(k) ==
    /\ pc = "idle"
    /\ w.writeable
    /\ w' = getMutableDict(w, file.cells, k)
    /\ hist' = Forget(hist)
    /\ last' = Did("getMutable", <<k>>,
                   IF get(w, file.cells, k) \in Vals THEN "dict" ELSE "null")
    /\ UNCHANGED <<file, disk, pageSize, pc, cw, r, openResult, ncuts, hdvars, ncvars>>

\* A variant of revertChanges that loads nothing.
revertNothing(db, cells) == [threw |-> FALSE, db |-> db]

\* DB::revertChanges: loadCheckpoint(checkpoint())
revertChanges(db, cells) == loadCheckpoint(db, cells, checkpoint(db))

RevertChanges ==
    /\ pc = "idle"
    /\ w' = revertChanges(w, file.cells).db
    /\ hist' = Forget(hist)
    /\ last' = Did("revertChanges", <<>>,
                   IF revertChanges(w, file.cells).threw THEN "InvalidData" ELSE "ok")
    /\ UNCHANGED <<file, disk, pageSize, pc, cw, r, openResult, ncuts, hdvars, ncvars>>

\* Variants of the seek: to the previous checkpoint, and to the file's start.
seekPosPrev(db) == db.prevCheckpoint

seekPosZero(db) == 0

\* writeToFile with delta: fseeko(f, _data.size, SEEK_SET)
seekPos(db) == db.dataSize

\* The snapshots in the chain of checkpoint c; a checkpoint whose load
\* threw counts as a full file.
RECURSIVE snapshots(_, _, _)
snapshots(cells, ps, c) ==
    IF c = 0 THEN 0
    ELSE IF ~validateTrailer(cells, ps, c) THEN MaxCommits
    ELSE 1 + snapshots(cells, ps, TrailerAt(cells, c).prevTrailerPos)

\* commitChanges up to writeToFile's seek.
\* A variant of isChanged for which every overlay has changes.
isChangedAlways(db) == TRUE

\* _tree.isChanged()
isChanged(db) == db.changed

\* commitChanges on an overlay without changes: it returns at once.
CommitUnchanged ==
    /\ pc = "idle"
    /\ ~isChanged(w)
    /\ last' = Did("commitChanges", <<>>, "none")
    /\ UNCHANGED <<file, disk, pageSize, w, pc, cw, r, openResult, ncuts, hist, hdvars, ncvars>>

CommitBegin ==
    /\ pc = "idle"
    /\ isChanged(w)
    /\ w.writeable
    /\ snapshots(file.cells, w.pageSize, w.dataSize) < MaxCommits
    /\ cw' = [filePos |-> seekPos(w), finalPos |-> 0]
    /\ pc' = "header"
    /\ hist' = [hist EXCEPT !.phase = "commit", !.pre = gets(w, file.cells),
                            !.B = w.dataSize, !.F0 = file.size]
    /\ last' = Did("commitChanges", <<>>, "none")
    /\ UNCHANGED <<file, disk, pageSize, w, r, openResult, ncuts, hdvars, ncvars>>

\* writeToFile: the header, when the image is empty.
WriteHeader ==
    /\ pc = "header"
    /\ IF w.dataSize = 0
       THEN /\ file' = [size |-> Max(file.size, cw.filePos + HeaderSize),
                        cells |-> WriteCell(file.cells, [HeaderCell EXCEPT !.off = cw.filePos])]
            /\ cw' = [cw EXCEPT !.filePos = @ + HeaderSize]
       ELSE UNCHANGED <<file, cw>>
    /\ pc' = "encode"
    /\ UNCHANGED <<disk, pageSize, w, r, openResult, ncuts, hist, last, hdvars, ncvars>>

\* writeToFile: the delta of the tree against the base _data, n bytes long.
WriteTree(n) ==
    /\ pc = "encode"
    /\ file' = [size |-> Max(file.size, cw.filePos + n),
                cells |-> WriteCell(file.cells,
                                    TrieCell(cw.filePos, n, w.treePos, w.overlay))]
    /\ cw' = [cw EXCEPT !.filePos = @ + n]
    /\ pc' = "extend"
    /\ UNCHANGED <<disk, pageSize, w, r, openResult, ncuts, hist, last, hdvars, ncvars>>

\* A variant of finalPos: room for the trailer, no rounding.
roundUpNone(filePos, ps) == filePos + TrailerSize

\* writeToFile: finalPos, the next page boundary that leaves room for a trailer
roundUp(filePos, ps) ==
    LET finalPos == filePos + TrailerSize
    IN  IF finalPos % ps # 0 THEN finalPos + (ps - (finalPos % ps)) ELSE finalPos

\* writeToFile: ftruncate to finalPos
ExtendFile ==
    /\ pc = "extend"
    /\ LET finalPos == roundUp(cw.filePos, w.pageSize)
       IN  /\ cw' = [cw EXCEPT !.finalPos = finalPos]
           /\ file' = [size |-> finalPos, cells |-> CutCells(file.cells, finalPos)]
    /\ pc' = "flush1"
    /\ UNCHANGED <<disk, pageSize, w, r, openResult, ncuts, hist, last, hdvars, ncvars>>

\* flushFile: fflush, then fsync; a failing fsync is warned about, no more.
flushFile(f, d, ok) == IF ok THEN f ELSE d

\* flushFile: the warnings it prints.
flushWarns(ok) == IF ok THEN 0 ELSE 1

\* A variant of afterFlush in which a failing fsync ends the commit.
afterFlushOrAbort(step, ok) ==
    IF ~ok THEN "idle" ELSE IF step = "flush1" THEN "trailer" ELSE "reload"

\* writeToFile after flushFile returned: flushFile raises nothing for a
\* failing fsync, so the trailer follows the first one, the return and the
\* reload the second.
afterFlush(step, ok) == IF step = "flush1" THEN "trailer" ELSE "reload"

FlushFile(ok) ==
    /\ pc \in {"flush1", "flush2"}
    /\ disk' = flushFile(file, disk, ok)
    /\ pc' = afterFlush(pc, ok)
    /\ last' = IF ~last.on THEN last
               ELSE [last EXCEPT !.failed = IF ok THEN @ ELSE @ + 1,
                                 !.warned = @ + flushWarns(ok)]
    /\ UNCHANGED <<file, pageSize, w, cw, r, openResult, ncuts, hist, hdvars, ncvars>>

\* writeToFile raises: fwrite, fseeko, ftruncate or fflush failed.
\* commitChanges passes the error on; the instance is as it was.
CommitRaises ==
    /\ pc \in CommitSteps \ {"reload"}
    /\ pc' = "idle"
    /\ hist' = Forget(hist)
    /\ last' = IF last.on THEN [last EXCEPT !.result = "IOError"] ELSE last
    /\ UNCHANGED <<file, disk, pageSize, w, cw, r, openResult, ncuts, hdvars, ncvars>>

\* A variant of the trailer: treeOffset measured from the trailer's end.
trailerForEnd(db, filePos, finalPos) ==
    [treeOffset |-> finalPos - filePos, prevTrailerPos |-> db.dataSize]

\* A variant of the trailer: treeOffset measured to the first byte the
\* commit wrote.
trailerForStart(db, filePos, finalPos) ==
    [treeOffset |-> finalPos - TrailerSize - db.dataSize
                        - (IF db.dataSize = 0 THEN HeaderSize ELSE 0),
     prevTrailerPos |-> db.dataSize]

\* writeToFile: the trailer's fields.  The padding is below the page size,
\* so the cast to uint32_t keeps it as it is.
trailerFor(db, filePos, finalPos) ==
    [treeOffset |-> finalPos - TrailerSize - filePos,
     prevTrailerPos |-> db.dataSize]

\* writeToFile: fseeko(f, -sizeof(FileTrailer), SEEK_END) and the trailer
WriteTrailer ==
    /\ pc = "trailer"
    /\ LET t == trailerFor(w, cw.filePos, cw.finalPos)
           cells == WriteCell(file.cells,
                              TrailerCell(file.size - TrailerSize,
                                          t.treeOffset, t.prevTrailerPos))
       IN  /\ file' = [file EXCEPT !.cells = cells]
           /\ hist' = [hist EXCEPT !.snaps =
                          {s \in @ : s.c # file.size} \cup
                          {[c |-> file.size, gets |-> hist.pre,
                            bytes |-> UpTo(cells, file.size)]}]
    /\ pc' = "flush2"
    /\ UNCHANGED <<disk, pageSize, w, cw, r, openResult, ncuts, last, hdvars, ncvars>>

\* A variant of observerCalls that calls the observer before the reload.
observerCallsFirst(db, res, newFileSize) ==
    <<[newSize |-> newFileSize, checkpoint |-> checkpoint(db)]>>

\* commitChanges after loadCheckpoint: the calls of the commit observer,
\* each with the newSize it is given and the checkpoint() it finds.  There
\* is none when loadCheckpoint raised.
observerCalls(db, res, newFileSize) ==
    IF res.threw THEN <<>>
    ELSE <<[newSize |-> newFileSize, checkpoint |-> checkpoint(res.db)]>>

\* commitChanges: resizeTo(newFileSize), loadCheckpoint(newFileSize), and
\* the observer.
Reload ==
    /\ pc = "reload"
    /\ LET res == loadCheckpoint(w, file.cells, cw.finalPos)
       IN  /\ w' = res.db
           /\ hist' = IF res.threw THEN Forget(hist)
                      ELSE [hist EXCEPT !.phase = "committed"]
    /\ pc' = "idle"
    /\ last' = IF ~last.on THEN last
                ELSE LET res == loadCheckpoint(w, file.cells, cw.finalPos)
                     IN  [last EXCEPT
                            !.result = IF res.threw THEN "InvalidData" ELSE "ok",
                            !.observed = @ \o observerCalls(w, res, cw.finalPos)]
    /\ UNCHANGED <<file, disk, pageSize, cw, r, openResult, ncuts, hdvars, ncvars>>

\* DB::DB(const DB &other, off_t checkpoint): a read-only clone on the same
\* mapping.  The constructor does not take _pageSize from other, so the
\* clone's page size ps is whatever the class leaves it at.  Its only check
\* of the checkpoint is assert(checkpoint <= _data.size), which a build
\* with NDEBUG leaves out: asserts says which build this is.
cloneAt(other, cells, c, ps, asserts) ==
    IF asserts /\ c > other.dataSize
    THEN [failed |-> "assert", db |-> NoDB]
    ELSE LET res == loadCheckpoint([NoDB EXCEPT !.live = TRUE, !.pageSize = ps,
                                                !.dataSize = other.dataSize],
                                   cells, c)
         IN  [failed |-> IF res.threw THEN "InvalidData" ELSE "none", db |-> res.db]

CloneAt(c, ps, asserts) ==
    /\ w.live
    /\ ~r.live
    /\ LET res == cloneAt(w, file.cells, c, ps, asserts)
       IN  /\ IF res.failed # "none"
              THEN /\ openResult' = res.failed
                   /\ UNCHANGED <<r, hist>>
              ELSE /\ openResult' = "ok"
                   /\ r' = res.db
                   /\ hist' = [hist EXCEPT
                                 !.rc = c,
                                 !.rload = [cp |-> checkpoint(res.db),
                                            gets |-> gets(res.db, file.cells),
                                            bytes |-> UpTo(file.cells, res.db.dataSize)]]
           /\ last' = Did("clone", <<c, ps, asserts>>, res.failed)
    /\ UNCHANGED <<file, disk, pageSize, w, pc, cw, ncuts, hdvars, ncvars>>

ReaderClose ==
    /\ r.live
    /\ r' = NoDB
    /\ hist' = [hist EXCEPT !.rc = 0, !.rload = NoLoad]
    /\ last' = NoOp(last.on)
    /\ UNCHANGED <<file, disk, pageSize, w, pc, cw, openResult, ncuts, hdvars, ncvars>>

\* A file as loadCheckpoint can find it: LoadPages pages of LoadPage bytes,
\* a header or none, and at each page's end a trailer or none, with any of
\* the tree offsets and previous positions below.
LoadPage == 64
LoadPages == 3
LoadTreeOffsets == {6, 7, 38, 200}
LoadPrevs == {0, 64, 65}
LoadSizes == {1, 63, 64, 100, 128, 191, 192}

LoadTrailers(c) ==
    {{}} \cup {{TrailerCell(c - TrailerSize, t, p)} : t \in LoadTreeOffsets, p \in LoadPrevs}

RECURSIVE LoadCells(_)
LoadCells(n) ==
    IF n = 0 THEN {{}, {HeaderCell}}
    ELSE {cs \cup t : cs \in LoadCells(n - 1), t \in LoadTrailers(n * LoadPage)}

LoadFiles == {[size |-> LoadPages * LoadPage, cells |-> cs] : cs \in LoadCells(LoadPages)}

\* An instance is made on the file and loadCheckpoint(S) is called on it.
LoadAt(S) ==
    /\ pc = "closed"
    /\ openResult = "none"
    /\ LET res == loadCheckpoint([NoDB EXCEPT !.live = TRUE, !.pageSize = pageSize,
                                              !.writeable = TRUE],
                                 file.cells, S)
       IN  /\ IF res.threw
              THEN /\ openResult' = "InvalidData"
                   /\ UNCHANGED <<w, pc>>
              ELSE /\ openResult' = "ok"
                   /\ w' = res.db
                   /\ pc' = "idle"
           /\ last' = Did("loadCheckpoint", <<S>>,
                          IF res.threw THEN "InvalidData" ELSE "ok")
    /\ UNCHANGED <<file, disk, pageSize, cw, r, ncuts, hist, hdvars, ncvars>>

\* ------------------------------------------------ the environment's steps

\* What a reader of stable storage sees: the records wholly inside its size.
Visible(d) == [size |-> d.size, cells |-> CutCells(d.cells, d.size)]

\* The OS writes the file's size back before any fsync asks for it.
WritebackSize ==
    /\ pc # "closed"
    /\ disk.size # file.size
    /\ disk' = [size |-> file.size, cells |-> CutCells(disk.cells, file.size)]
    /\ UNCHANGED <<file, pageSize, w, pc, cw, r, openResult, ncuts, hist, last, hdvars, ncvars>>

\* Stable storage after the OS wrote the dirty records S back.
WrittenBack(d, S) ==
    [size |-> d.size,
     cells |-> {x \in d.cells :
                  \A c \in S : x.off + x.len <= c.off \/ x.off >= c.off + c.len} \cup S]

\* The trailer of the commit in progress is in file image f.
TrailerIn(f) ==
    /\ pc \in {"flush2", "reload"}
    /\ \E c \in f.cells : c.kind = "trailer" /\ c.off + c.len = cw.finalPos

\* The history of the snapshots whose trailer is in cells.
Kept(snaps, cells) ==
    {s \in snaps : \E c \in cells : c.kind = "trailer" /\ c.off + c.len = s.c}

\* The process or the machine stops: memory is lost, and the file is what
\* stable storage holds, which is what the last successful sync left there
\* plus the dirty records S that the OS wrote back since, in any order.
Crash(S) ==
    /\ pc # "closed"
    /\ S \subseteq file.cells \ disk.cells
    /\ LET left == Visible(WrittenBack(disk, S))
           kept == Kept(hist.snaps, left.cells)
       IN  /\ file' = left
           /\ disk' = left
           /\ hist' = IF pc \in CommitSteps /\ ~TrailerIn(left)
                      THEN [hist EXCEPT !.phase = "interrupted",
                                        !.pre = SnapGets(hist.snaps, hist.B),
                                        !.snaps = kept,
                                        !.rc = 0, !.rload = NoLoad]
                      ELSE [Forget(hist) EXCEPT !.snaps = kept,
                                                !.rc = 0, !.rload = NoLoad]
    /\ w' = NoDB
    /\ r' = NoDB
    /\ pc' = "closed"
    /\ cw' = [filePos |-> 0, finalPos |-> 0]
    /\ openResult' = "none"
    /\ last' = NoOp(last.on)
    /\ UNCHANGED <<pageSize, ncuts, hdvars, ncvars>>

\* The trie-or-padding region of the newest snapshot of a file at rest.
CutRegion(f, ps) ==
    IF validateTrailer(f.cells, ps, f.size)
    THEN LET prev == TrailerAt(f.cells, f.size).prevTrailerPos
         IN  {o \in 0 .. f.size :
                 /\ o >= prev + (IF prev = 0 THEN HeaderSize ELSE 0)
                 /\ o < f.size - TrailerSize}
    ELSE {}

\* The closed file is cut off at offset o inside its newest snapshot.
Truncate(o) ==
    /\ pc = "closed"
    /\ ncuts < MaxCuts
    /\ o \in CutRegion(file, pageSize)
    /\ ncuts' = ncuts + 1
    /\ file' = [size |-> o, cells |-> CutCells(file.cells, o)]
    /\ disk' = [size |-> o, cells |-> CutCells(file.cells, o)]
    /\ LET prev == TrailerAt(file.cells, file.size).prevTrailerPos
       IN  hist' = [hist EXCEPT !.phase = "cut", !.B = prev,
                                !.pre = SnapGets(hist.snaps, prev), !.F0 = 0,
                                !.snaps = Kept(@, CutCells(file.cells, o))]
    /\ last' = NoOp(last.on)
    /\ UNCHANGED <<pageSize, w, pc, cw, r, openResult, hdvars, ncvars>>

\* ----------------------------------------------------------- the steps

PutModes == {"Insert", "Update", "Upsert"}

\* The writer's changes to the documents of keys.
ChangeNext(keys) ==
    \/ \E k \in keys, mode \in PutModes, v \in Vals \cup {Absent} : Put(k, mode, v)
    \/ \E k \in keys : Remove(k)

\* The steps of commitChanges; oks are the outcomes fsync can have.
CommitNext(oks) ==
    \/ CommitBegin
    \/ WriteHeader
    \/ \E n \in TrieSizes : WriteTree(n)
    \/ ExtendFile
    \/ \E ok \in oks : FlushFile(ok)
    \/ WriteTrailer
    \/ Reload

\* Clones at the legal checkpoints.
ReaderNext ==
    \/ /\ w.live
       /\ \E c \in {x \in 0 .. file.size : isLegalCheckpoint(w, x)}, ps \in PageSizes :
              CloneAt(c, ps, TRUE)
    \/ ReaderClose

\* Clones at any offset, in either build.
CloneOffsets == {0, 1, 64, 100, 128, 129, 192}

CloneNext ==
    \/ \E c \in CloneOffsets, ps \in PageSizes, asserts \in BOOLEAN : CloneAt(c, ps, asserts)
    \/ ReaderClose

CrashNext ==
    \/ WritebackSize
    \/ \E S \in SUBSET file.cells : Crash(S)
    \/ \E o \in 0 .. file.size : Truncate(o)

vars == <<dbvars, hdvars, ncvars>>

\* -------------------------------------------------------------- HeapDict

\* The keys of a dict, in the order of slice's operator<.
KeyOrder == <<"a", "b", "c">>
DictKeys == {KeyOrder[i] : i \in 1 .. Len(KeyOrder)}

\* Values of a dict: a scalar, an immutable dict in the source's data, and
\* the mutable copy of one.
SourceVals == {"scalar", "dict"}
HeapVals == {"scalar", "dict", "heapdict"}
NoEntry == "noentry"            \* the map has no entry for the key
Empty == "empty"                \* ValueSlot(): an empty slot
NoSource == [null |-> TRUE, dict |-> [k \in DictKeys |-> "absent"]]  \* _source is null
\* _iterable: null, or the array kvArray built; an array that was written
\* beyond its end holds anything.
NoIterable == [null |-> TRUE, sound |-> TRUE, items |-> <<>>]
Tags == {"kDictTag", "kArrayTag"}

\* Dict::get on the source
sourceGet(src, k) == IF src.null THEN Absent ELSE src.dict[k]

\* Dict::count on the source
sourceCount(src) ==
    IF src.null THEN 0 ELSE Cardinality({k \in DictKeys : src.dict[k] # Absent})

\* ValueSlot::asValue
asValue(slot) == IF slot = Empty THEN Absent ELSE slot

\* HeapDict::get
hdGet(src, map, k) ==
    IF map[k] # NoEntry THEN asValue(map[k]) ELSE sourceGet(src, k)

\* HeapCollection::mutableCopy and ValueSlot::makeMutable: the mutable
\* collection for a value, or Absent when it is none of the asked type.
mutableCopy(v, ifType) ==
    IF v \in {"dict", "heapdict"} /\ ifType = "kDictTag" THEN "heapdict" ELSE Absent

\* hlast: the operation, its key and argument, and the key's slot, the
\* count, the changed flag and what get gave for each key before it.
NoLast ==
    [op |-> "none", key |-> "none", arg |-> "none", slot |-> NoEntry,
     count |-> 0, changed |-> FALSE, gets |-> [k \in DictKeys |-> Absent]]

Last(op, k, arg) ==
    [op |-> op, key |-> k, arg |-> arg,
     slot |-> IF k \in DictKeys THEN _map[k] ELSE NoEntry,
     count |-> _count, changed |-> _changed,
     gets |-> [x \in DictKeys |-> hdGet(_source, _map, x)]]

\* HeapDict::HeapDict(const Dict *d)
InitDict ==
    /\ _source \in {NoSource} \cup
                    [null : {FALSE}, dict : [DictKeys -> SourceVals \cup {Absent}]]
    /\ _map = [k \in DictKeys |-> NoEntry]
    /\ _count = sourceCount(_source)
    /\ _changed = FALSE
    /\ _iterable = NoIterable
    /\ _borrowed = {}
    /\ hlast = NoLast

\* The dict of the DB specifications: none is in use.
NoDict ==
    /\ _source = NoSource
    /\ _map = [k \in DictKeys |-> NoEntry]
    /\ _count = 0
    /\ _changed = FALSE
    /\ _iterable = NoIterable
    /\ _borrowed = {}
    /\ hlast = NoLast

\* _makeValueFor: the map with an entry for the key, empty if it is new
makeValueFor(map, k) == IF map[k] # NoEntry THEN map ELSE [map EXCEPT ![k] = Empty]

\* _mutableValueToSetFor: the count after it
countToSet(src, map, count, k) ==
    IF makeValueFor(map, k)[k] = Empty /\ sourceGet(src, k) = Absent
    THEN count + 1 ELSE count

\* HeapDict::set: _mutableValueToSetFor(key).set(value)
set(k, v) ==
    /\ _count' = countToSet(_source, _map, _count, k)
    /\ _map' = [makeValueFor(_map, k) EXCEPT ![k] = v]
    /\ _changed' = TRUE
    /\ _iterable' = NoIterable
    /\ hlast' = Last("set", k, v)
    /\ UNCHANGED <<_source, _borrowed>>
    /\ UNCHANGED <<dbvars, ncvars>>

\* A variant of remove: a key of the source with no slot of its own is
\* left alone.
removeFromSlotOnly(src, map, count, changed, iterable, k) ==
    IF map[k] \in {NoEntry, Empty}
    THEN [map |-> map, count |-> count, changed |-> changed, iterable |-> iterable]
    ELSE [map |-> [map EXCEPT ![k] = IF sourceGet(src, k) # Absent THEN Empty ELSE NoEntry],
          count |-> count - 1, changed |-> TRUE, iterable |-> NoIterable]

\* HeapDict::remove: the map, the count and the flags after it
removeFrom(src, map, count, changed, iterable, k) ==
    IF sourceGet(src, k) # Absent
    THEN LET made == makeValueFor(map, k)
         IN  IF made[k] = Empty
             THEN [map |-> made, count |-> count, changed |-> changed,
                   iterable |-> iterable]
             ELSE [map |-> [made EXCEPT ![k] = Empty], count |-> count - 1,
                   changed |-> TRUE, iterable |-> NoIterable]
    ELSE IF map[k] = NoEntry
         THEN [map |-> map, count |-> count, changed |-> changed,
               iterable |-> iterable]
         ELSE [map |-> [map EXCEPT ![k] = NoEntry], count |-> count - 1,
               changed |-> TRUE, iterable |-> NoIterable]

HRemove(k) ==
    /\ LET res == removeFrom(_source, _map, _count, _changed, _iterable, k)
       IN  /\ res.count >= 0 - MaxUnderflow
           /\ _map' = res.map
           /\ _count' = res.count
           /\ _changed' = res.changed
           /\ _iterable' = res.iterable
           /\ _borrowed' = {b \in _borrowed : res.map[b] # NoEntry}
    /\ hlast' = Last("remove", k, "none")
    /\ UNCHANGED _source
    /\ UNCHANGED <<dbvars, ncvars>>

\* HeapDict::removeAll
removeAll ==
    /\ IF _count = 0
       THEN UNCHANGED <<_map, _count, _changed, _iterable, _borrowed>>
       ELSE /\ _map' = [k \in DictKeys |->
                          IF sourceGet(_source, k) # Absent THEN Empty ELSE NoEntry]
            /\ _count' = 0
            /\ _changed' = TRUE
            /\ _iterable' = NoIterable
            /\ _borrowed' = {}
    /\ hlast' = Last("removeAll", "none", "none")
    /\ UNCHANGED _source
    /\ UNCHANGED <<dbvars, ncvars>>

\* HeapDict::getMutable: what it returns, the map after it, and whether the
\* entry is a new one made by _map.emplace(key, result), whose key is the
\* caller's slice.
getMutableResult(src, map, k, ifType) ==
    LET result == IF map[k] # NoEntry THEN mutableCopy(asValue(map[k]), ifType)
                  ELSE mutableCopy(sourceGet(src, k), ifType)
    IN  [result |-> result,
         map |-> IF result # Absent THEN [map EXCEPT ![k] = result] ELSE map,
         emplaced |-> result # Absent /\ map[k] = NoEntry]

getMutable(k, ifType) ==
    /\ LET res == getMutableResult(_source, _map, k, ifType)
       IN  /\ _map' = res.map
           /\ _borrowed' = IF res.emplaced THEN _borrowed \cup {k} ELSE _borrowed
           /\ IF res.result # Absent
              THEN /\ _changed' = TRUE
                   /\ _iterable' = NoIterable
              ELSE UNCHANGED <<_changed, _iterable>>
    /\ hlast' = Last("getMutable", k, ifType)
    /\ UNCHANGED <<_source, _count>>
    /\ UNCHANGED <<dbvars, ncvars>>

\* HeapDict::count
count == _count

\* slice's operator< on keys
rank(k) == CHOOSE i \in 1 .. Len(KeyOrder) : KeyOrder[i] = k

less(k1, k2) == rank(k1) < rank(k2)

\* The keys Dict::iterator walks over the source, and the keys of _map from
\* begin() to end(): both sorted.
sourceKeys(src) == SelectSeq(KeyOrder, LAMBDA k : sourceGet(src, k) # Absent)

mapKeys(map) == SelectSeq(KeyOrder, LAMBDA k : map[k] # NoEntry)

\* A variant of the merge: a key that both sides hold advances the map only.
RECURSIVE mergeNoSkip(_, _, _)
mergeNoSkip(it, src, map) ==
    LET S == sourceKeys(src)
        N == mapKeys(map)
        sourceActive == it.si <= Len(S)
        newActive == it.ni <= Len(N)
    IN  IF ~(sourceActive \/ newActive) THEN [it EXCEPT !.value = Absent]
        ELSE IF ~newActive \/ (sourceActive /\ less(S[it.si], N[it.ni]))
        THEN [it EXCEPT !.key = S[it.si], !.value = sourceGet(src, S[it.si]),
                        !.si = @ + 1]
        ELSE LET exists == map[N[it.ni]] # Empty
                 nxt == [it EXCEPT
                           !.key = IF exists THEN N[it.ni] ELSE @,
                           !.value = IF exists THEN asValue(map[N[it.ni]]) ELSE @,
                           !.ni = @ + 1]
             IN  IF exists THEN nxt ELSE mergeNoSkip(nxt, src, map)

\* HeapDict::iterator::operator++ from its while loop on.  An iterator is
\* [si, ni, key, value, count]: the positions of _sourceIter and _newIter,
\* the pair it is at, and its countdown.
RECURSIVE merge(_, _, _)
merge(it, src, map) ==
    LET S == sourceKeys(src)
        N == mapKeys(map)
        sourceActive == it.si <= Len(S)
        newActive == it.ni <= Len(N)
    IN  IF ~(sourceActive \/ newActive) THEN [it EXCEPT !.value = Absent]
        ELSE IF ~newActive \/ (sourceActive /\ less(S[it.si], N[it.ni]))
        THEN [it EXCEPT !.key = S[it.si], !.value = sourceGet(src, S[it.si]),
                        !.si = @ + 1]
        ELSE LET exists == map[N[it.ni]] # Empty
                 nxt == [it EXCEPT
                           !.key = IF exists THEN N[it.ni] ELSE @,
                           !.value = IF exists THEN asValue(map[N[it.ni]]) ELSE @,
                           !.si = IF sourceActive /\ S[it.si] = N[it.ni]
                                  THEN @ + 1 ELSE @,
                           !.ni = @ + 1]
             IN  IF exists THEN nxt ELSE merge(nxt, src, map)

\* HeapDict::iterator::operator++
increment(it, src, map) == merge([it EXCEPT !.count = @ - 1], src, map)

\* HeapDict::iterator::iterator(const HeapDict*)
iterator(src, map, cnt) ==
    increment([si |-> 1, ni |-> 1, key |-> "none", value |-> Absent,
               count |-> cnt + 1], src, map)

\* for (iterator i(this); i; ++i): the pairs the loop sees
RECURSIVE pairsFrom(_, _, _)
pairsFrom(it, src, map) ==
    IF it.value = Absent THEN <<>>
    ELSE <<[key |-> it.key, value |-> it.value]>> \o
         pairsFrom(increment(it, src, map), src, map)

pairs(src, map, cnt) == pairsFrom(iterator(src, map, cnt), src, map)

\* HeapDict::kvArray: the arrays _iterable can be after it.  The array is
\* made for count() pairs: with fewer pairs from the iterator its tail stays
\* null, with more it is written beyond its end.
kvArrayOf(src, map, cnt, iterable) ==
    IF ~iterable.null THEN {iterable}
    ELSE LET ps == pairs(src, map, cnt)
             null == [key |-> Absent, value |-> Absent]
         IN  IF Len(ps) <= cnt
             THEN {[null |-> FALSE, sound |-> TRUE,
                    items |-> ps \o [i \in 1 .. cnt - Len(ps) |-> null]]}
             ELSE {[null |-> FALSE, sound |-> FALSE, items |-> <<>>],
                   [null |-> FALSE, sound |-> TRUE,
                    items |-> SubSeq(ps, 1, IF cnt > 0 THEN cnt ELSE 0)]}

\* kvArray in a build that keeps assert(n == 2*_count), or one without it.
kvArray(asserts) ==
    /\ \E a \in kvArrayOf(_source, _map, _count, _iterable) : _iterable' = a
    /\ hlast' = Last("kvArray", "none",
                     IF /\ asserts /\ _iterable.null
                        /\ Len(pairs(_source, _map, _count)) # _count
                     THEN "assert" ELSE "none")
    /\ UNCHANGED <<_source, _map, _count, _changed, _borrowed>>
    /\ UNCHANGED <<dbvars, ncvars>>

\* The caller ends the life of the bytes of a key it passed to getMutable,
\* or writes them over.  The entry _map.emplace made has that slice as its
\* key: from then on a lookup of the key finds the entry, or does not find
\* it, or finds it under another key that has no entry.
ReleaseKey(k, found) ==
    /\ k \in _borrowed
    /\ found \in {k, NoEntry} \cup {x \in DictKeys : _map[x] = NoEntry}
    /\ _map' = IF found = k THEN _map
               ELSE IF found = NoEntry THEN [_map EXCEPT ![k] = NoEntry]
               ELSE [_map EXCEPT ![k] = NoEntry, ![found] = _map[k]]
    /\ _borrowed' = _borrowed \ {k}
    /\ UNCHANGED <<_source, _count, _changed, _iterable, hlast>>
    /\ UNCHANGED <<dbvars, ncvars>>

\* --------------------------------------------------------- ParseInteger

Width == 8                      \* bits of the integer types, for 64
MaxLen == 4                     \* characters of str before its NUL

RECURSIVE Pow(_, _)
Pow(b, e) == IF e = 0 THEN 1 ELSE b * Pow(b, e - 1)

UINT_MAX == Pow(2, Width) - 1
INT_MAX == Pow(2, Width - 1) - 1
INT_MIN == 0 - Pow(2, Width - 1)

Digits == <<"0", "1", "2", "3", "4", "5", "6", "7", "8", "9">>
Spaces == {" "}
NUL == "NUL"
Chars == {Digits[i] : i \in 1 .. 10} \cup Spaces \cup {"-", "+", "x"}

RECURSIVE StringsOf(_)
StringsOf(n) ==
    IF n = 0 THEN {<<>>}
    ELSE {Append(s, c) : s \in StringsOf(n - 1), c \in Chars}

Strings == UNION {StringsOf(n) : n \in 0 .. MaxLen}

Unparsed == [done |-> FALSE, ok |-> FALSE, result |-> 0]

\* *str at index i: the string's character, or its NUL.
at(s, i) == IF i <= Len(s) THEN s[i] ELSE NUL

isdigit(c) == \E i \in 1 .. 10 : Digits[i] = c

isspace(c) == c \in Spaces

\* *str - '0'
digitOf(c) == (CHOOSE i \in 1 .. 10 : Digits[i] = c) - 1

\* while (isspace(*str)) ++str
RECURSIVE skipSpaces(_, _)
skipSpaces(s, i) == IF isspace(at(s, i)) THEN skipSpaces(s, i + 1) ELSE i

\* A variant of the digit loop without its overflow checks: n wraps.
RECURSIVE digitsWrap(_, _, _)
digitsWrap(s, i, n) ==
    IF ~isdigit(at(s, i)) THEN [ok |-> TRUE, n |-> n, i |-> i]
    ELSE digitsWrap(s, i + 1, (n * 10 + digitOf(at(s, i))) % (UINT_MAX + 1))

\* _parseUInt: the loop over the digits, n an unsigned integer of Width bits.
RECURSIVE digitsLoop(_, _, _)
digitsLoop(s, i, n) ==
    IF ~isdigit(at(s, i)) THEN [ok |-> TRUE, n |-> n, i |-> i]
    ELSE LET digit == digitOf(at(s, i))
             n10 == (n * 10) % (UINT_MAX + 1)
         IN  IF n > UINT_MAX \div 10 THEN [ok |-> FALSE, n |-> n, i |-> i]
             ELSE IF n10 > UINT_MAX - digit THEN [ok |-> FALSE, n |-> n10, i |-> i]
             ELSE digitsLoop(s, i + 1, (n10 + digit) % (UINT_MAX + 1))

\* _parseUInt from index i
parseUInt(s, i, trailing) ==
    IF ~isdigit(at(s, i)) THEN [ok |-> FALSE, result |-> 0]
    ELSE LET d == digitsLoop(s, i, 0)
         IN  IF ~d.ok THEN [ok |-> FALSE, result |-> 0]
             ELSE IF ~trailing /\ at(s, skipSpaces(s, d.i)) # NUL
             THEN [ok |-> FALSE, result |-> 0]
             ELSE [ok |-> TRUE, result |-> d.n]

\* ParseInteger(const char*, int64_t&, bool); result is what it stored, 0
\* standing for a result it left alone.
ParseInteger(s, trailing) ==
    LET i == skipSpaces(s, 1)
        negative == at(s, i) = "-"
        j == IF negative \/ at(s, i) = "+" THEN i + 1 ELSE i
        u == parseUInt(s, j, trailing)
    IN  IF ~u.ok THEN [ok |-> FALSE, result |-> 0]
        ELSE IF negative
        THEN IF u.result <= INT_MAX THEN [ok |-> TRUE, result |-> 0 - u.result]
             ELSE IF u.result = INT_MAX + 1 THEN [ok |-> TRUE, result |-> INT_MIN]
             ELSE [ok |-> FALSE, result |-> 0]
        ELSE IF u.result > INT_MAX THEN [ok |-> FALSE, result |-> 0]
             ELSE [ok |-> TRUE, result |-> u.result]

NoNumber == str = <<>> /\ allowTrailing = FALSE /\ parsed = Unparsed

InitNumber == str \in Strings /\ allowTrailing \in BOOLEAN /\ parsed = Unparsed

Parse ==
    /\ parsed = Unparsed
    /\ parsed' = [done |-> TRUE,
                  ok |-> ParseInteger(str, allowTrailing).ok,
                  result |-> ParseInteger(str, allowTrailing).result]
    /\ UNCHANGED <<str, allowTrailing, dbvars, hdvars>>

\* ------------------------------------------------------- specifications

\* One writer on a file whose syncs succeed, closed and reopened at will.
Init == pageSize \in PageSizes /\ InitDB /\ NoDict /\ Untracked /\ NoNumber
Next == Open \/ Close \/ RevertChanges \/ ChangeNext(Keys) \/ CommitNext({TRUE})
Spec == Init /\ [][Next]_vars

\* The same, for every page size the constructor accepts.
AnyPageSizes == {1, 64, 65}
InitPages == pageSize \in AnyPageSizes /\ InitDB /\ NoDict /\ Untracked /\ NoNumber
SpecPages == InitPages /\ [][Next]_vars

\* The writer and a read-only clone of it.
InitReaders == pageSize = 64 /\ InitDB /\ NoDict /\ Untracked /\ NoNumber
NextReaders == ChangeNext(Keys) \/ CommitNext({TRUE}) \/ ReaderNext
SpecReaders == InitReaders /\ [][NextReaders]_vars

\* The writer with crashes, write-back in any order, failing syncs, and a
\* file cut off while closed.
CrashKeys == {"a"}
NextCrash == Open \/ ChangeNext(CrashKeys) \/ CommitNext(BOOLEAN) \/ CrashNext
SpecCrash == InitReaders /\ [][NextCrash]_vars

\* The writer with the record of its last operation kept, and syncs that
\* can fail.
InitOps == pageSize = 64 /\ InitDB /\ NoDict /\ Tracked /\ NoNumber
NextOps ==
    \/ Open \/ Close \/ RevertChanges \/ ChangeNext(Keys)
    \/ \E k \in Keys : GetMutable(k)
    \/ CommitUnchanged \/ CommitNext(BOOLEAN)
SpecOps == InitOps /\ [][NextOps]_vars

\* The writer and clones of it at any offset, the record of the last
\* operation kept.
InitClone == pageSize = 64 /\ InitDB /\ NoDict /\ Tracked /\ NoNumber
NextClone == ChangeNext(CrashKeys) \/ CommitNext({TRUE}) \/ CloneNext
SpecClone == InitClone /\ [][NextClone]_vars

\* The writer on any page size, with commits that raise an I/O error, the
\* record of the last operation kept.
ObserverPageSizes == {64, 65}
InitObserver == pageSize \in ObserverPageSizes /\ InitDB /\ NoDict /\ Tracked /\ NoNumber
NextObserver ==
    \/ ChangeNext(CrashKeys) \/ CommitUnchanged \/ CommitNext({TRUE}) \/ CommitRaises
SpecObserver == InitObserver /\ [][NextObserver]_vars

\* A HeapDict over any source dict; _count wraps below zero at most
\* MaxUnderflow deep.
InitDictOnly == pageSize = 64 /\ InitDB /\ InitDict /\ Untracked /\ NoNumber
NextDict ==
    \/ \E k \in DictKeys, v \in HeapVals : set(k, v)
    \/ \E k \in DictKeys : HRemove(k)
    \/ removeAll
    \/ \E k \in DictKeys, ifType \in Tags : getMutable(k, ifType)
SpecDict == InitDictOnly /\ [][NextDict]_vars

\* loadCheckpoint at any size of any file of LoadPages pages.
InitLoad ==
    /\ pageSize \in PageSizes
    /\ file \in LoadFiles
    /\ disk = file
    /\ w = NoDB
    /\ pc = "closed"
    /\ cw = [filePos |-> 0, finalPos |-> 0]
    /\ r = NoDB
    /\ openResult = "none"
    /\ ncuts = 0
    /\ hist = NoHist
    /\ NoDict /\ Tracked /\ NoNumber
NextLoad == \E S \in LoadSizes : LoadAt(S)
SpecLoad == InitLoad /\ [][NextLoad]_vars

\* ParseInteger on every string of up to MaxLen characters.
InitParse == pageSize = 64 /\ InitDB /\ NoDict /\ Untracked /\ InitNumber
NextParse == Parse
SpecParse == InitParse /\ [][NextParse]_vars

\* A HeapDict over a source of dicts, with its flat projection asked for
\* at any time.
InitArray ==
    /\ InitDictOnly
    /\ \A k \in DictKeys : sourceGet(_source, k) # "scalar"
NextArray == NextDict \/ \E asserts \in BOOLEAN : kvArray(asserts)
SpecArray == InitArray /\ [][NextArray]_vars

\* A HeapDict over a source of dicts whose callers do not keep the keys
\* they pass alive.
NextKeys ==
    \/ NextDict
    \/ \E k \in DictKeys, found \in DictKeys \cup {NoEntry} : ReleaseKey(k, found)
SpecKeys == InitArray /\ [][NextKeys]_vars

\* ----------------------------------------------------------- properties

\* The checkpoints commits produced.
Checkpoints == {s.c : s \in hist.snaps}

\* The trie the writer's tree starts from.
RootCell(cells, treePos) == CHOOSE c \in cells : c.kind = "trie" /\ c.off + c.len = treePos

\* C1: when a commit from checkpoint B is interrupted before its trailer is
\* durable, or the file is cut off inside its newest snapshot, opening the
\* file succeeds, loads checkpoint B and shows B's documents, B = 0 included.
CrashRecoversBase ==
    hist.phase = "recovered" =>
        /\ openResult = "ok"
        /\ checkpoint(w) = hist.B
        /\ gets(w, file.cells) = hist.pre

\* C2: on stable storage, every trailer that passes validation has all the
\* bytes of its snapshot below it, as the commit wrote them.
DurableTrailerHasTree ==
    pc = "closed" =>
        \A s \in hist.snaps :
            validateTrailer(disk.cells, pageSize, s.c) =>
                UpTo(disk.cells, s.c - TrailerSize) = UpTo(s.bytes, s.c - TrailerSize)

SnapshotImmutable ==
    \A s \in hist.snaps :
        /\ UpTo(file.cells, s.c) = s.bytes
        /\ w.live /\ s.c <= w.dataSize =>
               dataUpToCheckpoint(w, file.cells, s.c) = [null |-> FALSE, bytes |-> s.bytes]

SnapshotImmutableSeen ==
    /\ hist.phase = "committed"
    /\ w.live
    /\ \E s \in hist.snaps :
           /\ s.c < w.dataSize
           /\ \E c \in file.cells : c.off >= s.c

\* C5: a clone made at a checkpoint c that a commit produced shows the
\* documents of snapshot c and has checkpoint c.
HistoricalIsolation ==
    r.live /\ hist.rc \in Checkpoints =>
        /\ checkpoint(r) = hist.rc
        /\ gets(r, file.cells) = SnapGets(hist.snaps, hist.rc)

\* C6: while a reader lives, whatever steps of a commit the writer takes,
\* the reader's checkpoint, the result of each of its gets and the bytes
\* below its checkpoint stay what they were when it was loaded.
ReaderStable ==
    r.live =>
        /\ checkpoint(r) = hist.rload.cp
        /\ gets(r, file.cells) = hist.rload.gets
        /\ UpTo(file.cells, r.dataSize) = hist.rload.bytes

ReaderStableSeen ==
    /\ r.live
    /\ r.dataSize > 0
    /\ pc = "flush2"
    /\ r.dataSize = w.dataSize
    /\ \E c \in file.cells : c.kind = "trailer" /\ c.off >= r.dataSize

PageAlignedAbovePhysical ==
    hist.phase = "committed" =>
        /\ file.size % pageSize = 0
        /\ file.size >= hist.F0 + pageSize

\* C8: once writeToFile has returned, and after the commit, the file size is
\* a multiple of the page size and at least one page above the checkpoint
\* the commit started from.
PageAlignedAboveCheckpoint ==
    hist.phase = "committed" \/ pc = "reload" =>
        /\ file.size % pageSize = 0
        /\ file.size >= hist.B + pageSize

PageAlignedSeen ==
    /\ hist.phase = "committed"
    /\ hist.F0 > hist.B
    /\ hist.B > 0

\* The trailers from checkpoint c back: each valid and naming a lower one,
\* down to zero.
RECURSIVE TrailerChain(_, _, _)
TrailerChain(cells, ps, c) ==
    \/ c = 0
    \/ /\ c > 0
       /\ validateTrailer(cells, ps, c)
       /\ TrailerAt(cells, c).prevTrailerPos < c
       /\ TrailerChain(cells, ps, TrailerAt(cells, c).prevTrailerPos)

\* C9: in every file state, following prevTrailerPos from the trailer of
\* the checkpoint an instance has loaded meets only valid trailers at
\* strictly decreasing offsets and ends at 0.
ChainToZero ==
    w.live /\ (w.dataSize = 0 \/ validateTrailer(file.cells, w.pageSize, w.dataSize)) =>
        TrailerChain(file.cells, w.pageSize, checkpoint(w))

\* C10: count() is the number of keys for which get returns a value.
CountIsPresent ==
    count = Cardinality({k \in DictKeys : hdGet(_source, _map, k) # Absent})

\* C11: right after remove(k) on a HeapDict, get(k) is absent, whether k
\* was in the source only, in the overlay only, in both or in neither.
RemovedIsAbsent ==
    hlast.op = "remove" => hdGet(_source, _map, hlast.key) = Absent

RemovedIsAbsentSeen ==
    /\ hlast.op = "remove"
    /\ sourceGet(_source, hlast.key) # Absent
    /\ hlast.slot = NoEntry
    /\ \E k \in DictKeys : sourceGet(_source, k) = Absent /\ _map[k] \in HeapVals

\* C12: in every overlay state the iterator yields keys in strictly
\* ascending order, none twice, also for keys that source and overlay share
\* and for tombstones.
IteratorAscending ==
    LET ps == pairs(_source, _map, _count)
    IN  \A i, j \in 1 .. Len(ps) : i < j => less(ps[i].key, ps[j].key)

IteratorAscendingSeen ==
    /\ \A k \in DictKeys : sourceGet(_source, k) # Absent
    /\ _map[KeyOrder[1]] = Empty
    /\ _map[KeyOrder[2]] \in HeapVals
    /\ _map[KeyOrder[3]] = NoEntry
    /\ Len(pairs(_source, _map, _count)) = 2

\* C13: put with Insert on a key that exists, and put with Update on a key
\* that does not, return false and leave the DB and the file as they were;
\* every other put of a value returns true, and get then returns the value.
PutModeRules ==
    last.op = "put" =>
        LET k == last.args[1]
            mode == last.args[2]
            v == last.args[3]
            cur == get(last.w0, last.file0.cells, k)
            refused == \/ mode = "Insert" /\ cur # Absent
                       \/ mode = "Update" /\ cur = Absent
        IN  /\ file = last.file0
            /\ refused => last.result = "false" /\ w = last.w0
            /\ ~refused /\ v # Absent =>
                   last.result = "true" /\ get(w, file.cells, k) = v

PutModeRulesSeen ==
    /\ last.op = "put"
    /\ last.args[2] = "Insert"
    /\ last.args[3] # Absent
    /\ last.result = "false"
    /\ last.w0.overlay[last.args[1]] = NoChange
    /\ last.w0.dataSize > 0
    /\ last.w0.changed

\* C14: commitChanges on an overlay without changes leaves the file, the
\* checkpoint, the previous checkpoint and every get as they were, and the
\* commit observer is not called.
UnchangedCommitIsNoop ==
    last.op = "commitChanges" /\ ~last.w0.changed =>
        /\ pc = "idle"
        /\ file = last.file0
        /\ checkpoint(w) = checkpoint(last.w0)
        /\ w.prevCheckpoint = last.w0.prevCheckpoint
        /\ gets(w, file.cells) = gets(last.w0, last.file0.cells)
        /\ w = last.w0
        /\ last.observed = <<>>

UnchangedCommitIsNoopSeen ==
    /\ last.op = "commitChanges"
    /\ ~last.w0.changed
    /\ checkpoint(last.w0) > 0
    /\ \E k \in Keys : get(w, file.cells, k) # Absent

\* The instance is loaded at a snapshot of the file, or at the empty DB.
AtSnapshot(db, cells) ==
    \/ checkpoint(db) = 0
    \/ validateHeader(cells, db.pageSize) /\ validateTrailer(cells, db.pageSize, checkpoint(db))

\* C15: revertChanges on an instance loaded at a snapshot drops the pending
\* changes: every get gives what the snapshot at the checkpoint holds, the
\* checkpoint and the previous checkpoint are as before, the overlay has no
\* changes, so that commitChanges would return at once, and the file is as
\* it was.
RevertDiscards ==
    last.op = "revertChanges" /\ AtSnapshot(last.w0, last.file0.cells) =>
        /\ last.result = "ok"
        /\ gets(w, file.cells) = SnapGets(hist.snaps, checkpoint(w))
        /\ checkpoint(w) = checkpoint(last.w0)
        /\ w.prevCheckpoint = last.w0.prevCheckpoint
        /\ w.overlay = NoDelta
        /\ ~isChanged(w)
        /\ ENABLED CommitUnchanged
        /\ file = last.file0

RevertDiscardsSeen ==
    /\ last.op = "revertChanges"
    /\ checkpoint(last.w0) > 0
    /\ last.w0.changed
    /\ gets(last.w0, last.file0.cells) # gets(w, file.cells)
    /\ \E k \in Keys : get(w, file.cells, k) # Absent

\* C16: a clone at an explicit checkpoint, in a build that keeps its
\* asserts and with the writer's page size, fails when the checkpoint is not
\* legal for the writer, and for a legal one is a read-only instance on the
\* same bytes with checkpoint() the one asked for.
CloneChecksLegality ==
    last.op = "clone" /\ last.args[2] = last.w0.pageSize /\ last.args[3] =>
        IF isLegalCheckpoint(last.w0, last.args[1])
        THEN /\ last.result = "none"
             /\ r.live /\ ~r.writeable
             /\ checkpoint(r) = last.args[1]
             /\ UpTo(file.cells, r.dataSize) = UpTo(last.file0.cells, last.args[1])
        ELSE last.result # "none"

\* C17: a commitChanges under which an fsync failed still returns without
\* an error: each failure was warned about, the trailer is in the file, the
\* instance is loaded at finalPos with the documents the commit held, as
\* after a commit whose syncs succeeded, and the observer was called.
SyncFailureCompletes ==
    last.op = "commitChanges" /\ last.failed > 0 /\ pc = "idle" =>
        /\ last.result = "ok"
        /\ last.warned = last.failed
        /\ \E c \in file.cells : c.kind = "trailer" /\ c.off + c.len = cw.finalPos
        /\ checkpoint(w) = cw.finalPos
        /\ w.prevCheckpoint = checkpoint(last.w0)
        /\ gets(w, file.cells) = gets(last.w0, last.file0.cells)
        /\ ~isChanged(w)
        /\ Len(last.observed) = 1 /\ last.observed[1].newSize = cw.finalPos

SyncFailureCompletesSeen ==
    /\ last.op = "commitChanges"
    /\ last.failed = 2
    /\ pc = "idle"
    /\ checkpoint(last.w0) > 0
    /\ disk # file

LeadEnd(s) == CHOOSE i \in 1 .. Len(s) + 1 :
                 /\ \A j \in 1 .. i - 1 : s[j] \in Spaces
                 /\ i = Len(s) + 1 \/ s[i] \notin Spaces

HasSign(s) == LeadEnd(s) <= Len(s) /\ s[LeadEnd(s)] \in {"-", "+"}

DigitsFrom(s) == IF HasSign(s) THEN LeadEnd(s) + 1 ELSE LeadEnd(s)

DigitsEnd(s) == CHOOSE i \in DigitsFrom(s) .. Len(s) + 1 :
                   /\ \A j \in DigitsFrom(s) .. i - 1 : isdigit(s[j])
                   /\ i = Len(s) + 1 \/ ~isdigit(s[i])

RECURSIVE BaseTen(_, _, _)
BaseTen(s, from, to) ==
    IF to <= from THEN 0
    ELSE digitOf(s[to - 1]) + 10 * BaseTen(s, from, to - 1)

Spelled(s) ==
    LET magnitude == BaseTen(s, DigitsFrom(s), DigitsEnd(s))
    IN  IF HasSign(s) /\ s[LeadEnd(s)] = "-" THEN 0 - magnitude ELSE magnitude

WellFormed(s, trailing) ==
    /\ DigitsEnd(s) > DigitsFrom(s)
    /\ trailing \/ \A j \in DigitsEnd(s) .. Len(s) : s[j] \in Spaces

\* C19: ParseInteger returns true exactly for optional whitespace, an
\* optional sign and one or more digits, followed by whitespace only unless
\* allowTrailing, that spell a value from INT_MIN to INT_MAX; the result is
\* then that value, INT_MIN for '-' and the digits of INT_MAX + 1; a value
\* outside the range gives false, not a wrapped result.
ParseIntegerExact ==
    parsed.done =>
        /\ parsed.ok = (/\ WellFormed(str, allowTrailing)
                        /\ Spelled(str) >= INT_MIN
                        /\ Spelled(str) <= INT_MAX)
        /\ parsed.ok => parsed.result = Spelled(str)
        /\ WellFormed(str, allowTrailing) /\ Spelled(str) = 0 - (INT_MAX + 1) =>
               parsed.ok /\ parsed.result = INT_MIN

ParseIntegerExactSeen ==
    /\ parsed.done
    /\ parsed.ok
    /\ parsed.result = INT_MIN
    /\ Len(str) = MaxLen

\* The trailer that ends at c passes every check: both magics, the previous
\* position at most c - ps and a multiple of ps, the tree position
\* c - 32 - treeOffset at least the previous position, and even.
TrailerPasses(cells, ps, c) ==
    \E t \in cells :
        /\ t.kind = "trailer" /\ t.off + t.len = c
        /\ t.prevTrailerPos <= c - ps
        /\ t.prevTrailerPos % ps = 0
        /\ c - TrailerSize - t.treeOffset >= t.prevTrailerPos
        /\ (c - TrailerSize - t.treeOffset) % 2 = 0

Loadable(cells, ps, S) ==
    {c \in ps .. S : c % ps = 0 /\ TrailerPasses(cells, ps, c)}

\* C20: loadCheckpoint(S), S above 0 and the page size above 1, raises
\* InvalidData when S is below the page size or the header is not valid;
\* otherwise it loads at the greatest multiple of the page size, from the
\* page size to S, whose trailer passes every check, and raises InvalidData
\* when there is none.
LoadsGreatestValid ==
    last.op = "loadCheckpoint" /\ last.args[1] > 0 /\ pageSize > 1 =>
        LET S == last.args[1]
            good == Loadable(file.cells, pageSize, S)
        IN  IF S < pageSize \/ HeaderCell \notin file.cells \/ good = {}
            THEN last.result = "InvalidData"
            ELSE /\ last.result = "ok"
                 /\ checkpoint(w) \in good
                 /\ \A c \in good : c <= checkpoint(w)

LoadsGreatestValidSeen ==
    /\ last.op = "loadCheckpoint"
    /\ last.result = "ok"
    /\ last.args[1] % pageSize # 0
    /\ checkpoint(w) + pageSize < last.args[1]
    /\ \E t \in file.cells : t.kind = "trailer" /\ t.off + t.len = checkpoint(w) + pageSize

\* The trie the commit in hand wrote, and whether its trailer is written.
NewTrie ==
    CHOOSE c \in file.cells :
        c.kind = "trie" /\ c.off >= hist.B /\ c.off + c.len <= cw.finalPos - TrailerSize

TrailerWritten ==
    \/ pc \in {"flush2", "reload"}
    \/ pc = "idle" /\ w.live /\ hist.phase = "committed"

\* C21 as stated: the trailer a commit from checkpoint B writes has
\* prevTrailerPos B and a treeOffset that leads from the trailer's start to
\* the first byte of the trie the commit wrote, which is where the load
\* puts the tree.
TrailerToTrieStart ==
    TrailerWritten =>
        LET t == TrailerAt(file.cells, cw.finalPos)
        IN  /\ t.prevTrailerPos = hist.B
            /\ t.treeOffset = (cw.finalPos - TrailerSize) - NewTrie.off
            /\ pc = "idle" => w.treePos = NewTrie.off

\* C21: the same, with the treeOffset leading to the end of the trie the
\* commit wrote: the position after the encoder's last byte.
TrailerToTrieEnd ==
    TrailerWritten =>
        LET t == TrailerAt(file.cells, cw.finalPos)
        IN  /\ t.prevTrailerPos = hist.B
            /\ t.treeOffset = (cw.finalPos - TrailerSize) - (NewTrie.off + NewTrie.len)
            /\ pc = "idle" => w.treePos = NewTrie.off + NewTrie.len

TrailerToTrieEndSeen ==
    /\ pc = "idle" /\ w.live /\ hist.phase = "committed"
    /\ hist.B > 0
    /\ NewTrie.len > 2
    /\ w.treePos = NewTrie.off + NewTrie.len

\* The pairs of the dict: each key get finds, with its value, in key order.
RECURSIVE ContentsFrom(_)
ContentsFrom(i) ==
    IF i > Len(KeyOrder) THEN <<>>
    ELSE (IF hdGet(_source, _map, KeyOrder[i]) # Absent
          THEN <<[key |-> KeyOrder[i], value |-> hdGet(_source, _map, KeyOrder[i])]>>
          ELSE <<>>) \o ContentsFrom(i + 1)

Contents == ContentsFrom(1)

GetsNow == [k \in DictKeys |-> hdGet(_source, _map, k)]

\* C22: an operation after which get gives another result for some key
\* has set the changed flag and dropped the flat projection, so that the
\* projection, whenever there is one, lists the pairs of the dict.
ChangeInvalidates ==
    /\ hlast.op # "none" /\ hlast.gets # GetsNow =>
           _changed /\ _iterable = NoIterable
    /\ ~_iterable.null => _iterable.sound /\ _iterable.items = Contents

\* C23: after removeAll the dict is empty: count() is 0, get gives nothing
\* for any key, the iterator yields no pair, and the changed flag is set.
RemoveAllEmpties ==
    hlast.op = "removeAll" =>
        /\ count = 0
        /\ \A k \in DictKeys : hdGet(_source, _map, k) = Absent
        /\ pairs(_source, _map, _count) = <<>>
        /\ _changed

\* C24: getMutable on a key get gives nothing for returns nothing and
\* leaves the dict as it was; on a key whose value is a collection of the
\* tag asked for, the mutable value is in the overlay, so that get and
\* another getMutable give it again, the dict is marked changed, and
\* count() and every other key are as before.
GetMutableInstalls ==
    hlast.op = "getMutable" =>
        LET k == hlast.key
            before == hlast.gets[k]
        IN  /\ before = Absent =>
                   /\ GetsNow = hlast.gets
                   /\ _map[k] = hlast.slot
                   /\ _changed = hlast.changed
            /\ mutableCopy(before, hlast.arg) # Absent =>
                   /\ hdGet(_source, _map, k) = mutableCopy(before, hlast.arg)
                   /\ _map[k] = mutableCopy(before, hlast.arg)
                   /\ getMutableResult(_source, _map, k, hlast.arg).result = _map[k]
                   /\ _changed
                   /\ \A x \in DictKeys \ {k} : hdGet(_source, _map, x) = hlast.gets[x]
            /\ count = hlast.count

\* The pairs the merged iterator yields are the pairs (k, get(k)) of the
\* keys get gives a value for, in key order.
IteratorYieldsContents == pairs(_source, _map, _count) = Contents

\* C25: in every state the merged iterator yields exactly the pairs
\* (k, get(k)) of the keys get gives a value for, and as many pairs as
\* count() says.
IteratorMatchesCount ==
    /\ IteratorYieldsContents
    /\ Len(pairs(_source, _map, _count)) = count

====
